---- MODULE Spec2Model ----
(***************************************************************************)
(* A model of manta, a small path tracer (src/src/tracer.rs, image.rs,     *)
(* geometry.rs).                                                           *)
(*                                                                         *)
(* Numbers.  An f64 is modelled as an exact extended rational <<n, d>>:    *)
(* d > 0 is the rational n/d in lowest terms, <<1, 0>> is +infinity,       *)
(* <<-1, 0>> is -infinity and <<0, 0>> is NaN.  Arithmetic is exact: the   *)
(* rounding of f64 is not modelled.  A square root that is not rational    *)
(* is kept as the triple <<"sqrt", n, d>>, the real sqrt(n/d); only        *)
(* convert_component reads such a value.                                   *)
(***************************************************************************)
EXTENDS Integers, Sequences, FiniteSets, TLC

----------------------------------------------------------------------------
(* f64 arithmetic *)

Abs(n) == IF n < 0 THEN -n ELSE n

Sign(n) == IF n < 0 THEN -1 ELSE IF n > 0 THEN 1 ELSE 0

\* The arithmetic is defined by functions: applying a function evaluates its
\* arguments once.

GCD[a \in Nat, b \in Nat] == IF b = 0 THEN a ELSE GCD[b, a % b]

QF[n \in Int, d \in Int] ==
    IF d = 0 THEN <<Sign(n), 0>>
    ELSE <<Sign(n) * Sign(d) * (Abs(n) \div GCD[Abs(n), Abs(d)]),
           Abs(d) \div GCD[Abs(n), Abs(d)]>>

\* The f64 n/d (d = 0 gives the IEEE result of dividing by +0.0).
Q(n, d) == QF[n, d]

I(n) == <<n, 1>>

\* the extended rationals: pairs of integers
Num == Seq(Int)

NaN == <<0, 0>>
INFINITY == <<1, 0>>

IsNaN[a \in Num] == a = NaN

QAdd[a \in Num, b \in Num] == Q(a[1] * b[2] + b[1] * a[2], a[2] * b[2])
QNeg[a \in Num] == <<-a[1], a[2]>>
QSub[a \in Num, b \in Num] == QAdd[a, QNeg[b]]
QMul[a \in Num, b \in Num] == Q(a[1] * b[1], a[2] * b[2])
\* a / b: b's sign moves to the numerator, so that the denominator stays >= 0
QDiv[a \in Num, b \in Num] == Q(a[1] * b[2] * (IF b[1] < 0 THEN -1 ELSE 1), a[2] * Abs(b[1]))

\* IEEE comparisons: every comparison with NaN is false
QLt[a \in Num, b \in Num] ==
    /\ ~IsNaN[a]
    /\ ~IsNaN[b]
    /\ IF a[2] = 0 /\ b[2] = 0 THEN a[1] < b[1]
       ELSE a[1] * b[2] < b[1] * a[2]
QGt[a \in Num, b \in Num] == QLt[b, a]
QLe[a \in Num, b \in Num] == ~IsNaN[a] /\ ~IsNaN[b] /\ ~QLt[b, a]

\* the largest k in lo..hi with k * k <= n
ISqrtIn[n \in Nat, lo \in Nat, hi \in Nat] ==
    IF lo >= hi THEN lo
    ELSE IF ((lo + hi + 1) \div 2) * ((lo + hi + 1) \div 2) <= n
    THEN ISqrtIn[n, (lo + hi + 1) \div 2, hi]
    ELSE ISqrtIn[n, lo, ((lo + hi + 1) \div 2) - 1]

ISqrt(n) == ISqrtIn[n, 0, IF n < 40000 THEN n ELSE 40000]

IsSquare(n) == n >= 0 /\ ISqrt(n) * ISqrt(n) = n

\* f64::sqrt: NaN below zero, exact where the root is rational, and the
\* symbolic root <<"sqrt", n, d>> elsewhere
QSqrt[a \in Num] ==
    IF IsNaN[a] \/ a[1] < 0 THEN NaN
    ELSE IF a[2] = 0 THEN INFINITY
    ELSE IF IsSquare(a[1]) /\ IsSquare(a[2]) THEN <<ISqrt(a[1]), ISqrt(a[2])>>
    ELSE <<"sqrt", a[1], a[2]>>

\* whether sqrt(a) is a rational (or a special value), so that arithmetic
\* can go on with it
ExactSqrt[a \in Num] == Len(QSqrt[a]) = 2

QPowiF[a \in Num, k \in Nat] == IF k = 0 THEN I(1) ELSE QMul[a, QPowiF[a, k - 1]]

\* f64::powi
QPowi(a, k) == QPowiF[a, k]

----------------------------------------------------------------------------
(* geometry.rs: Vec3 (tracer.rs uses Point3 and Vec3 interchangeably) *)

Option_None == [some |-> FALSE]
Some(v) == [some |-> TRUE, val |-> v]

Vec3(x, y, z) == [x |-> x, y |-> y, z |-> z]
Vec3s == [x : Num, y : Num, z : Num]
\* a vector with integer components
VI(x, y, z) == Vec3(I(x), I(y), I(z))

dot[u \in Vec3s, v \in Vec3s] == QAdd[QAdd[QMul[u.x, v.x], QMul[u.y, v.y]], QMul[u.z, v.z]]
len2[v \in Vec3s] == dot[v, v]
len[v \in Vec3s] == QSqrt[len2[v]]
add[u \in Vec3s, v \in Vec3s] == Vec3(QAdd[u.x, v.x], QAdd[u.y, v.y], QAdd[u.z, v.z])
mul[v \in Vec3s, scale \in Num] == Vec3(QMul[scale, v.x], QMul[scale, v.y], QMul[scale, v.z])
div[v \in Vec3s, scale \in Num] == mul[v, QDiv[I(1), scale]]
neg[v \in Vec3s] == mul[v, I(-1)]
sub[u \in Vec3s, v \in Vec3s] == add[u, neg[v]]

\* Vec3::reflect and Vec3::normalize are called by tracer.rs and are not in
\* geometry.rs; they are taken from the specification's section 4.4:
\* reflect(v, n) = v - 2 (v . n) n, and normalize(v) = v / |v|
reflect[v \in Vec3s, n \in Vec3s] == sub[v, mul[n, QMul[I(2), dot[v, n]]]]
normalize[v \in Vec3s] == div[v, len[v]]

----------------------------------------------------------------------------
(* image.rs *)

clamp[f \in Num] ==
    IF QGt[f, I(1)] THEN I(1)
    ELSE IF QLt[f, I(0)] THEN I(0)
    ELSE f

frgb(r, g, b) == [r |-> clamp[r], g |-> clamp[g], b |-> clamp[b], a |-> I(1)]

lerp(self, t, that) ==
    LET lrp(a, b) == QSub[a, QMul[t, QSub[a, b]]]
    IN  frgb(lrp(self.r, that.r), lrp(self.g, that.g), lrp(self.b, that.b))

\* a variant that rounds to the nearest byte
TruncScaled_round(x) ==
    LET m == (2 * x[1] * 255999 + x[2] * 1000) \div (x[2] * 2000)
    IN  IF m > 255 THEN 255 ELSE m

\* floor(x * 255.999) for a rational x >= 0, cut at 255
TruncScaled(x) ==
    LET m == (x[1] * 255999) \div (x[2] * 1000)
    IN  IF m > 255 THEN 255 ELSE m

\* floor(sqrt(n/d) * 255.999), cut at 255: 255.999^2 = 65535.488001, and
\* floor(65535.488001 n / d) = (65535 n + floor(0.488001 n)) div d
TruncScaledRoot(n, d) ==
    LET sq == (65535 * n + ((488001 * n) \div 1000000)) \div d
        m == ISqrt(sq)
    IN  IF m > 255 THEN 255 ELSE m

\* (c * 255.999) as u8: the cast cuts the fraction, saturates, and maps NaN to 0
convert_component(c) ==
    IF Len(c) = 3 THEN TruncScaledRoot(c[2], c[3])
    ELSE IF IsNaN[c] \/ c[1] < 0 THEN 0
    ELSE IF c[2] = 0 THEN 255
    ELSE TruncScaled(c)

RGBA_from(color) ==
    [r |-> convert_component(color.r), g |-> convert_component(color.g),
     b |-> convert_component(color.b), a |-> convert_component(color.a)]

Image_empty(width, height) ==
    [data |-> [i \in 1..(4 * width * height) |-> 0],
     width |-> width, height |-> height]

\* self.data[i] = byte: the index is checked, and the panic ends the call
Store(st, i, byte) ==
    IF st.panicked \/ i >= Len(st.image.data)
    THEN [st EXCEPT !.panicked = TRUE]
    ELSE [st EXCEPT !.image.data[i + 1] = byte]

\* Image::set; the result holds the image and whether the call panicked
Image_set(image, x, y, color) ==
    LET c == RGBA_from(color)
        start == (image.width * y + x) * 4
        st0 == [image |-> image, panicked |-> FALSE]
    IN  Store(Store(Store(Store(st0, start, c.r), start + 1, c.g),
                    start + 2, c.b), start + 3, c.a)

----------------------------------------------------------------------------
(* tracer.rs: rays, materials, hit records *)

Ray(origin, direction) == [origin |-> origin, direction |-> direction]

at(ray, t) == add[ray.origin, mul[ray.direction, t]]

\* r_out_parallel + r_out_perp
refract_sum(n, r_out_parallel) ==
    add[r_out_parallel, mul[n, QNeg[QSqrt[QSub[I(1), len2[r_out_parallel]]]]]]

refract(uv, n, ri_over_rt) ==
    refract_sum(n, mul[add[uv, mul[n, QNeg[dot[uv, n]]]], ri_over_rt])

\* r0 + (1 - r0) (1 - cosine)^5, r0 being already squared
schlick_of(r0, cosine) ==
    QAdd[r0, QMul[QSub[I(1), r0], QPowi(QSub[I(1), cosine], 5)]]

\* r0 *= r0
Square(r0) == QMul[r0, r0]

schlick(cosine, ref_idx) ==
    schlick_of(Square(QDiv[QSub[I(1), ref_idx], QAdd[I(1), ref_idx]]), cosine)

Diffuse(albedo) == [kind |-> "Diffuse", albedo |-> albedo]
Metal(albedo, fuzz) == [kind |-> "Metal", albedo |-> albedo, fuzz |-> fuzz]
Glass(ri) == [kind |-> "Glass", ri |-> ri]

HitRecord_of(t, p, out_normal, material, outwards) ==
    [p |-> p, t |-> t,
     normal |-> IF outwards THEN out_normal ELSE neg[out_normal],
     outwards |-> outwards, material |-> material]

\* a variant that takes the front face for the back face
HitRecord_new_flipped(t, p, ray, out_normal, material) ==
    HitRecord_of(t, p, out_normal, material,
                 QGt[dot[ray.direction, out_normal], I(0)])

HitRecord_new(t, p, ray, out_normal, material) ==
    HitRecord_of(t, p, out_normal, material,
                 QLt[dot[ray.direction, out_normal], I(0)])

\* A definition that reads a computed value several times takes it as a
\* parameter (the let-bound names of the source become parameters of a
\* helper definition).

\* the Glass arm of scatter up to its branch: the refraction ratio, the unit
\* direction and the two quantities the branch compares
GlassTermsOf(rec, unit, cos_theta) ==
    [ri_over_rt |-> IF rec.outwards THEN QDiv[I(1), rec.material.ri]
                    ELSE rec.material.ri,
     unit |-> unit,
     cos_theta |-> cos_theta,
     sin_theta |-> QSqrt[QSub[I(1), QMul[cos_theta, cos_theta]]],
     reflect_prob |-> schlick(cos_theta, rec.material.ri)]

\* if cos_theta > 1.0 { cos_theta = 1.0 }
CapCos(cos_theta) == IF QGt[cos_theta, I(1)] THEN I(1) ELSE cos_theta

GlassTermsAt(rec, unit) ==
    GlassTermsOf(rec, unit, CapCos(QNeg[dot[unit, rec.normal]]))

GlassTerms(rec, ray) == GlassTermsAt(rec, normalize[ray.direction])

\* a variant that reflects on total internal reflection only
GlassReflectsOn_total_only(g, draw) ==
    QGt[QMul[g.ri_over_rt, g.sin_theta], I(1)]

\* the condition of the Glass arm on those terms: reflect (TRUE) or refract
\* (FALSE); draw is the value of fastrand::f64()
GlassReflectsOn(g, draw) ==
    \/ QGt[QMul[g.ri_over_rt, g.sin_theta], I(1)]
    \/ QLt[draw, g.reflect_prob]

GlassArm(rec, g, draw) ==
    IF GlassReflectsOn(g, draw)
    THEN Some([scattered |-> Ray(rec.p, reflect[g.unit, rec.normal]),
               attenuation |-> frgb(I(1), I(1), I(1))])
    ELSE Some([scattered |-> Ray(rec.p, refract(g.unit, rec.normal, g.ri_over_rt)),
               attenuation |-> frgb(I(1), I(1), I(1))])

MetalArm(rec, direction) ==
    IF QGt[dot[direction, rec.normal], I(0)]
    THEN Some([scattered |-> Ray(rec.p, direction),
               attenuation |-> rec.material.albedo])
    ELSE Option_None

\* HitRecord::scatter.  rand is the value unit_rand() returns and draw the
\* value fastrand::f64() returns, where the arm reads one.
scatter(rec, ray, rand, draw) ==
    CASE rec.material.kind = "Diffuse" ->
           Some([scattered |-> Ray(rec.p, add[rec.normal, rand]),
                 attenuation |-> rec.material.albedo])
      [] rec.material.kind = "Metal" ->
           MetalArm(rec, add[reflect[ray.direction, rec.normal],
                             mul[rand, rec.material.fuzz]])
      [] rec.material.kind = "Glass" ->
           GlassArm(rec, GlassTerms(rec, ray), draw)

----------------------------------------------------------------------------
(* tracer.rs: Sphere and HittableList *)

Sphere(center, radius, material) ==
    [center |-> center, radius |-> radius, material |-> material]

QuadraticOf(a, half_b, c) ==
    [a |-> a, half_b |-> half_b, c |-> c,
     discrim |-> QSub[QMul[half_b, half_b], QMul[a, c]]]

QuadraticAt(sphere, ray, oc) ==
    QuadraticOf(len2[ray.direction], dot[oc, ray.direction],
                QSub[len2[oc], QMul[sphere.radius, sphere.radius]])

\* the quadratic of Sphere::hit: a, half_b, c and discrim
Quadratic(sphere, ray) == QuadraticAt(sphere, ray, sub[ray.origin, sphere.center])

\* (t_min..t_max).contains(&t)
contains(t_min, t_max, t) == QLe[t_min, t] /\ QLt[t, t_max]

get_record_at(sphere, ray, t, p) ==
    HitRecord_new(t, p, ray, div[sub[p, sphere.center], sphere.radius],
                  sphere.material)

\* the closure get_record of Sphere::hit
get_record(sphere, ray, solution) ==
    get_record_at(sphere, ray, solution, at(ray, solution))

\* a variant that tries the far solution first
Sphere_hit_pick_far_first(sphere, ray, t_min, t_max, solution1, solution2) ==
    IF contains(t_min, t_max, solution2)
    THEN Some(get_record(sphere, ray, solution2))
    ELSE IF contains(t_min, t_max, solution1)
    THEN Some(get_record(sphere, ray, solution1))
    ELSE Option_None

\* the choice between the two solutions
Sphere_hit_pick(sphere, ray, t_min, t_max, solution1, solution2) ==
    IF contains(t_min, t_max, solution1)
    THEN Some(get_record(sphere, ray, solution1))
    ELSE IF contains(t_min, t_max, solution2)
    THEN Some(get_record(sphere, ray, solution2))
    ELSE Option_None

Sphere_hit_roots(sphere, ray, t_min, t_max, q, root) ==
    Sphere_hit_pick(sphere, ray, t_min, t_max,
                    QDiv[QSub[QNeg[q.half_b], root], q.a],
                    QDiv[QAdd[QNeg[q.half_b], root], q.a])

Sphere_hit_on(sphere, ray, t_min, t_max, q) ==
    IF QLt[q.discrim, I(0)] THEN Option_None
    ELSE Sphere_hit_roots(sphere, ray, t_min, t_max, q, QSqrt[q.discrim])

Sphere_hit(sphere, ray, t_min, t_max) ==
    Sphere_hit_on(sphere, ray, t_min, t_max, Quadratic(sphere, ray))

\* a variant that keeps closest_t at t_max
HittableList_hit_take_no_shrink(st, rec) ==
    IF rec.some THEN [res |-> rec, closest_t |-> st.closest_t] ELSE st

\* the body of the loop of HittableList::hit once obj.hit returned rec:
\* st holds res and closest_t
HittableList_hit_take(st, rec) ==
    IF rec.some THEN [res |-> rec, closest_t |-> rec.val.t] ELSE st

\* one iteration of the loop of HittableList::hit
HittableList_hit_iter(st, obj, ray, t_min) ==
    HittableList_hit_take(st, Sphere_hit(obj, ray, t_min, st.closest_t))

RECURSIVE HittableList_hit_from(_, _, _, _)
HittableList_hit_from(st, hittables, ray, t_min) ==
    IF hittables = <<>> THEN st.res
    ELSE HittableList_hit_from(HittableList_hit_iter(st, Head(hittables), ray, t_min),
                               Tail(hittables), ray, t_min)

\* HittableList::hit as a whole
HittableList_hit(hittables, ray, t_min, t_max) ==
    HittableList_hit_from([res |-> Option_None, closest_t |-> t_max],
                          hittables, ray, t_min)

----------------------------------------------------------------------------
(* tracer.rs: Camera and SampledColor *)

ASPECT == Q(16, 9)
VIEW_HEIGHT == I(2)
VIEW_WIDTH == QMul[ASPECT, VIEW_HEIGHT]
FOCAL_LENGTH == I(1)

Camera_of(origin, horizontal, vertical) ==
    [aspect |-> ASPECT,
     origin |-> origin,
     lower_left |-> sub[sub[sub[origin, div[horizontal, I(2)]],
                            div[vertical, I(2)]],
                        Vec3(I(0), I(0), FOCAL_LENGTH)],
     horizontal |-> horizontal,
     vertical |-> vertical]

Camera_new ==
    Camera_of(VI(0, 0, 0), Vec3(VIEW_WIDTH, I(0), I(0)), Vec3(I(0), VIEW_HEIGHT, I(0)))

get_ray(self, u, v) ==
    Ray(self.origin,
        sub[add[add[self.lower_left, mul[self.horizontal, u]],
                mul[self.vertical, v]],
            self.origin])

SampledColor_empty ==
    [samples |-> 0, acc |-> [r |-> I(0), g |-> I(0), b |-> I(0), a |-> I(0)]]

SampledColor_add(self, sample) ==
    [samples |-> self.samples + 1,
     acc |-> [r |-> QAdd[self.acc.r, sample.r],
              g |-> QAdd[self.acc.g, sample.g],
              b |-> QAdd[self.acc.b, sample.b],
              a |-> QAdd[self.acc.a, sample.a]]]

\* a variant without the gamma correction
SampledColor_result_linear(self) ==
    [r |-> QDiv[self.acc.r, I(self.samples)],
     g |-> QDiv[self.acc.g, I(self.samples)],
     b |-> QDiv[self.acc.b, I(self.samples)],
     a |-> QDiv[self.acc.a, I(self.samples)]]

SampledColor_result(self) ==
    [r |-> QSqrt[QDiv[self.acc.r, I(self.samples)]],
     g |-> QSqrt[QDiv[self.acc.g, I(self.samples)]],
     b |-> QSqrt[QDiv[self.acc.b, I(self.samples)]],
     a |-> QDiv[self.acc.a, I(self.samples)]]

\* ((width as f64) / ASPECT) as usize
height_of(width) ==
    (QDiv[I(width), ASPECT][1]) \div (QDiv[I(width), ASPECT][2])

----------------------------------------------------------------------------
(* State *)

VARIABLES
    \* HittableList::hit(ray, t_min, t_max) on a list of spheres
    hittables,      \* self.hittables
    hray,           \* ray
    t_min,
    t_max,
    next_obj,       \* the position of the for loop in self.hittables (from 1)
    res,            \* res
    closest_t,      \* closest_t
    last_call,      \* the latest call of Sphere::hit: arguments and result
    hpc,            \* "loop" inside HittableList::hit, "done" once it returned
    \* ray_color(ray, world, depth)
    ray,            \* ray
    depth,          \* depth
    color,          \* color
    iter,           \* the iterations of the for loop completed
    rec,            \* rec, between world.hit and rec.scatter
    result,         \* the value returned
    rpc,            \* "loop" at the head of the loop, "scatter" after a hit,
                    \* "done" once ray_color returned
    world_memo,     \* the latest world.hit: the ray tested and what it returned
    hit_tests,      \* the calls of world.hit so far
    absorbed,       \* some scatter of this call returned None
    tests_after,    \* the calls of world.hit since the first None of scatter
    escaped,        \* the call returned from its background arm
    \* Image::set(x, y, color) on an image
    img,            \* self
    set_call,       \* the latest call: its arguments, the image before it, and
                    \* whether it panicked
    set_calls,      \* the calls made so far
    set_pc,         \* "ready", or "panicked" once a call panicked
    \* frgb(r, g, b) followed by RGBA::from
    in_rgb,         \* the arguments of frgb
    fcolor,         \* the FRGBA frgb returned
    rgba,           \* the RGBA made from it
    cpc,            \* "start", "color" after frgb, "done" after RGBA::from
    \* a SampledColor: empty(), calls of add, result()
    sc,             \* self
    added,          \* the samples given to add, in order
    sc_result,      \* what result() returned
    spc,            \* "open", "done" after result()
    \* HitRecord::scatter on a Glass record
    g_rec,          \* self
    g_ray,          \* ray
    g_draw,         \* the value of fastrand::f64()
    g_ret,          \* the value returned
    g_reflected,    \* the condition of the reflect branch
    gpc,            \* "call", "done" once scatter returned
    \* trace(width)
    width,          \* width
    height,         \* height
    image,          \* image
    y,              \* y of the row loop
    x,              \* x of the column loop
    sampled,        \* sampled
    sample_i,       \* the iterations of the sample loop completed for this pixel
    u,              \* u of the latest sample
    v,              \* v of the latest sample
    cam_ray,        \* ray of the latest sample
    writes,         \* the calls of image.set so far: <<x, y>> of each
    tpc             \* "loop", "done" once trace returned, "panicked"

hitVars == <<hittables, hray, t_min, t_max, next_obj, res, closest_t, last_call, hpc>>
rayVars == <<ray, depth, color, iter, rec, result, rpc, world_memo, hit_tests,
             absorbed, tests_after, escaped>>

setVars == <<img, set_call, set_calls, set_pc>>
convVars == <<in_rgb, fcolor, rgba, cpc>>
sampVars == <<sc, added, sc_result, spc>>
glassVars == <<g_rec, g_ray, g_draw, g_ret, g_reflected, gpc>>
traceVars == <<width, height, image, y, x, sampled, sample_i, u, v, cam_ray,
               writes, tpc>>

vars == <<hitVars, rayVars, setVars, convVars, sampVars, glassVars, traceVars>>

\* Each specification below runs one component (skip); the variables of the
\* others hold these values and stay as they are.
Idle(skip) ==
    /\ skip # "hit" =>
          /\ hittables = <<>>
          /\ hray = 0
          /\ t_min = 0
          /\ t_max = 0
          /\ next_obj = 0
          /\ res = 0
          /\ closest_t = 0
          /\ last_call = 0
          /\ hpc = "idle"
    /\ skip # "ray" =>
          /\ ray = 0
          /\ depth = 0
          /\ color = 0
          /\ iter = 0
          /\ rec = 0
          /\ result = 0
          /\ rpc = "idle"
          /\ world_memo = 0
          /\ hit_tests = 0
          /\ absorbed = FALSE
          /\ tests_after = 0
          /\ escaped = FALSE
    /\ skip # "set" =>
          /\ img = 0
          /\ set_call = 0
          /\ set_calls = 0
          /\ set_pc = "idle"
    /\ skip # "conv" =>
          /\ in_rgb = 0
          /\ fcolor = 0
          /\ rgba = 0
          /\ cpc = "idle"
    /\ skip # "samp" =>
          /\ sc = 0
          /\ added = <<>>
          /\ sc_result = 0
          /\ spc = "idle"
    /\ skip # "glass" =>
          /\ g_rec = 0
          /\ g_ray = 0
          /\ g_draw = 0
          /\ g_ret = 0
          /\ g_reflected = FALSE
          /\ gpc = "idle"
    /\ skip # "trace" =>
          /\ width = 0
          /\ height = 0
          /\ image = 0
          /\ y = 0
          /\ x = 0
          /\ sampled = 0
          /\ sample_i = 0
          /\ u = 0
          /\ v = 0
          /\ cam_ray = 0
          /\ writes = <<>>
          /\ tpc = "idle"

----------------------------------------------------------------------------
(* HittableList::hit, one iteration of its loop per step *)

\* the longest list of hittables
MaxHittables == 3

White == frgb(I(1), I(1), I(1))

HitSpheres ==
    { Sphere(VI(0, 0, -1), Q(1, 2), Diffuse(frgb(Q(7, 10), Q(3, 10), Q(3, 10)))),
      Sphere(VI(0, 0, -2), Q(3, 2), Metal(frgb(Q(4, 5), Q(3, 5), Q(1, 5)), Q(3, 10))),
      Sphere(VI(0, 0, -3), I(1), Glass(Q(3, 2))),
      Sphere(VI(0, 3, -4), I(1), Diffuse(frgb(Q(4, 5), Q(4, 5), I(0)))) }

HitRays ==
    { Ray(VI(0, 0, 0), VI(0, 0, -2)),
      Ray(VI(0, 0, -1), VI(0, 0, -1)),
      Ray(VI(0, 0, 0), VI(0, 3, -4)),
      Ray(VI(0, 0, -5), VI(0, 0, 1)),
      Ray(Vec3(Q(1, 2), I(0), I(0)), VI(0, 0, -1)) }

HitTMins == { Q(1, 10000), I(2) }
HitTMaxs == { INFINITY, I(3) }

\* the square root of Sphere::hit is rational for this sphere and ray
ExactHit(sphere, ry) == ExactSqrt[Quadratic(sphere, ry).discrim]

NoCall == [made |-> FALSE]

InitHit ==
    /\ hittables \in UNION { [1..n -> HitSpheres] : n \in 0..MaxHittables }
    /\ hray \in HitRays
    /\ \A k \in DOMAIN hittables : ExactHit(hittables[k], hray)
    /\ t_min \in HitTMins
    /\ t_max \in HitTMaxs
    /\ next_obj = 1
    /\ res = Option_None
    /\ closest_t = t_max
    /\ last_call = NoCall
    /\ hpc = "loop"

HitIterTo(st) ==
    /\ res' = st.res
    /\ closest_t' = st.closest_t

HitIter ==
    /\ hpc = "loop"
    /\ next_obj <= Len(hittables)
    /\ HitIterTo(HittableList_hit_iter([res |-> res, closest_t |-> closest_t],
                                       hittables[next_obj], hray, t_min))
    /\ last_call' = [made |-> TRUE, sphere |-> hittables[next_obj],
                     t_min |-> t_min, t_max |-> closest_t,
                     ret |-> Sphere_hit(hittables[next_obj], hray, t_min, closest_t)]
    /\ next_obj' = next_obj + 1
    /\ UNCHANGED <<hittables, hray, t_min, t_max, hpc>>
    /\ UNCHANGED <<rayVars, setVars, convVars, sampVars, glassVars, traceVars>>

HitReturn ==
    /\ hpc = "loop"
    /\ next_obj > Len(hittables)
    /\ hpc' = "done"
    /\ UNCHANGED <<hittables, hray, t_min, t_max, next_obj, res, closest_t, last_call>>
    /\ UNCHANGED <<rayVars, setVars, convVars, sampVars, glassVars, traceVars>>

NextHit == HitIter \/ HitReturn

SpecHitInit == InitHit /\ Idle("hit")

SpecHit == SpecHitInit /\ [][NextHit]_vars

----------------------------------------------------------------------------
(* Claims on Sphere::hit and HittableList::hit *)

\* the two roots of the quadratic, by the formula: defined where discrim >= 0
Root1(q) == QDiv[QSub[QNeg[q.half_b], QSqrt[q.discrim]], q.a]
Root2(q) == QDiv[QAdd[QNeg[q.half_b], QSqrt[q.discrim]], q.a]

InRange(call, t) == QLe[call.t_min, t] /\ QLt[t, call.t_max]

SmallestRootIn(call, ret, t1, t2) ==
    /\ QLe[t1, t2]
    /\ InRange(call, t1) => ret.some /\ ret.val.t = t1
    /\ ~InRange(call, t1) /\ InRange(call, t2) => ret.some /\ ret.val.t = t2
    /\ ~InRange(call, t1) /\ ~InRange(call, t2) => ~ret.some
    /\ ret.some =>
          /\ InRange(call, ret.val.t)
          /\ ret.val.t \in {t1, t2}
          /\ \A t \in {t1, t2} : InRange(call, t) => QLe[ret.val.t, t]

SphereHitClaim(call, q) ==
    IF QLt[q.discrim, I(0)] THEN ~call.ret.some
    ELSE SmallestRootIn(call, call.ret, Root1(q), Root2(q))

\* C10: Sphere::hit returns nothing when the discriminant is negative;
\* otherwise it returns the hit at t1 if t_min <= t1 < t_max, else the hit at
\* t2 if t_min <= t2 < t_max, else nothing, so that a returned t lies in
\* [t_min, t_max) and is the smallest root there.
C10_SphereHitSmallestRoot ==
    last_call.made =>
        SphereHitClaim(last_call, Quadratic(last_call.sphere, hray))

\* a call where t1 is out of the range and the hit at t2 is returned
C10_Witness ==
    /\ last_call.made
    /\ last_call.ret.some
    /\ ~QLt[Quadratic(last_call.sphere, hray).discrim, I(0)]
    /\ ~InRange(last_call, Root1(Quadratic(last_call.sphere, hray)))
    /\ last_call.ret.val.t = Root2(Quadratic(last_call.sphere, hray))

\* the hits of the members of the list, each taken alone over [t_min, t_max)
MemberHits ==
    { Sphere_hit(hittables[k], hray, t_min, t_max) : k \in DOMAIN hittables }

ValidTs == { h.val.t : h \in { m \in MemberHits : m.some } }

IsSmallest(t, ts) == t \in ts /\ \A other \in ts : QLe[t, other]

Orders(n) ==
    { f \in [1..n -> 1..n] : \A i, j \in 1..n : f[i] = f[j] => i = j }

Permuted(seq, f) == [k \in 1..Len(seq) |-> seq[f[k]]]

SameT(r1, r2) == r1.some = r2.some /\ (r1.some => r1.val.t = r2.val.t)

\* C2: HittableList::hit returns the hit with the smallest t among the valid
\* hits of its members (nothing when no member is hit), and the returned t
\* is the same for every order of the list.
C2_ClosestHitAnyOrder ==
    hpc = "done" =>
        /\ res.some = (ValidTs # {})
        /\ res.some => IsSmallest(res.val.t, ValidTs)
        /\ \A f \in Orders(Len(hittables)) :
               SameT(HittableList_hit(Permuted(hittables, f), hray, t_min, t_max),
                     res)

\* two members are hit at different t, and the nearer one comes first
C2_Witness ==
    /\ hpc = "done"
    /\ res.some
    /\ \E i, j \in DOMAIN hittables :
          /\ i < j
          /\ Sphere_hit(hittables[i], hray, t_min, t_max).some
          /\ Sphere_hit(hittables[j], hray, t_min, t_max).some
          /\ QLt[Sphere_hit(hittables[i], hray, t_min, t_max).val.t,
                 Sphere_hit(hittables[j], hray, t_min, t_max).val.t]

\* the geometric outward normal of the sphere at the point p
OutwardAt(sphere, p) == div[sub[p, sphere.center], sphere.radius]

\* the origin of ry is strictly inside the sphere
OriginInside(sphere, ry) ==
    QLt[len2[sub[ry.origin, sphere.center]], QMul[sphere.radius, sphere.radius]]

NormalAgainstRay(sphere, ry, r) ==
    /\ QLe[dot[ry.direction, r.normal], I(0)]
    /\ r.outwards <=> QLt[dot[ry.direction, OutwardAt(sphere, r.p)], I(0)]
    /\ r.normal = IF r.outwards THEN OutwardAt(sphere, r.p)
                  ELSE neg[OutwardAt(sphere, r.p)]
    /\ OriginInside(sphere, ry) =>
          /\ ~r.outwards
          /\ r.normal = neg[OutwardAt(sphere, r.p)]

\* C11: the normal of every HitRecord made by HitRecord::new points against
\* the incoming ray (direction . normal <= 0): outwards is true exactly
\* when direction . outward normal < 0 and then normal is the outward
\* normal, otherwise its negation; a ray from inside a sphere gets
\* outwards = false and the negated outward normal.
C11_NormalAgainstRay ==
    last_call.made /\ last_call.ret.some =>
        NormalAgainstRay(last_call.sphere, hray, last_call.ret.val)

\* a ray from inside a sphere hit it from behind its surface
C11_Witness ==
    /\ last_call.made
    /\ last_call.ret.some
    /\ OriginInside(last_call.sphere, hray)
    /\ ~last_call.ret.val.outwards
    /\ QGt[dot[hray.direction, OutwardAt(last_call.sphere, last_call.ret.val.p)], I(0)]

----------------------------------------------------------------------------
(* ray_color: a step per call of world.hit and per call of rec.scatter *)

\* the largest depth ray_color is called with
MaxDepth == 3

Black == frgb(I(0), I(0), I(0))
SkyBlue == frgb(Q(1, 2), Q(7, 10), I(1))

\* the values of unit_rand() the model draws from: points of the unit sphere
UnitRands == { VI(0, 1, 0), VI(0, -1, 0), VI(1, 0, 0), VI(-1, 0, 0) }

\* the values of fastrand::f64() the model draws from, in [0, 1)
Draws == { I(0), Q(1, 2) }

RayColorRays ==
    { Ray(VI(0, 1, 0), VI(0, -1, 0)),
      Ray(VI(0, 1, 0), Vec3(I(1), Q(-1, 4), I(0))),
      Ray(VI(0, 1, 0), VI(3, -4, 0)) }

\* world is a &dyn Hittable: any implementation of the trait.  The model
\* lets world.hit return nothing, or a record made by HitRecord::new at one
\* of these points with one of these outward normals and materials, and
\* keeps what it returned for the ray it was asked about: world is borrowed
\* immutably, so asking again about the same ray gives the same answer.
WorldPoints == { VI(0, 0, 0) }
WorldNormals == { VI(0, 1, 0), VI(1, 0, 0) }
WorldMaterials ==
    { Diffuse(frgb(Q(1, 2), Q(1, 2), Q(1, 2))),
      Metal(frgb(Q(4, 5), Q(3, 5), Q(1, 5)), Q(3, 10)),
      Glass(Q(3, 2)) }

\* the square roots of the Glass arm are rational for this record and ray
ExactGlassOn(g) ==
    /\ ExactSqrt[QSub[I(1), QMul[g.cos_theta, g.cos_theta]]]
    /\ ExactSqrt[QSub[I(1), QMul[QMul[g.ri_over_rt, g.ri_over_rt],
                                 QSub[I(1), QMul[g.cos_theta, g.cos_theta]]]]]

ExactGlassUnit(r, unit) ==
    ExactGlassOn([ri_over_rt |-> IF r.outwards THEN QDiv[I(1), r.material.ri]
                                 ELSE r.material.ri,
                  cos_theta |-> CapCos(QNeg[dot[unit, r.normal]])])

ExactGlass(r, ry) ==
    /\ ExactSqrt[len2[ry.direction]]
    /\ ExactGlassUnit(r, normalize[ry.direction])

WorldRecords(ry) ==
    { r \in { HitRecord_new(I(1), p, ry, n, m) :
                  p \in WorldPoints, n \in WorldNormals, m \in WorldMaterials } :
        r.material.kind = "Glass" => ExactGlass(r, ry) }

\* what world.hit may return for ry; the background arm normalizes the ray's
\* direction, so a miss is modelled for the rays whose length is rational
WorldOutcomes(ry) ==
    { Some(r) : r \in WorldRecords(ry) }
        \cup (IF ExactSqrt[len2[ry.direction]] THEN { Option_None } ELSE {})

world_hit(ry) ==
    IF world_memo.made /\ world_memo.ray = ry THEN { world_memo.out }
    ELSE WorldOutcomes(ry)

InitRay ==
    /\ ray \in RayColorRays
    /\ depth \in -1..MaxDepth
    /\ color = frgb(I(1), I(1), I(1))
    /\ iter = 0
    /\ rec = Option_None
    /\ result = Option_None
    /\ rpc = "loop"
    /\ world_memo = NoCall
    /\ hit_tests = 0
    /\ absorbed = FALSE
    /\ tests_after = 0
    /\ escaped = FALSE

\* the color returned by the background arm
BackgroundOf(base) ==
    frgb(QMul[base.r, color.r], QMul[base.g, color.g], QMul[base.b, color.b])

BackgroundAt(unit) ==
    BackgroundOf(lerp(frgb(I(1), I(1), I(1)),
                      QMul[Q(1, 2), QAdd[unit.y, I(1)]], SkyBlue))

Background == BackgroundAt(normalize[ray.direction])

\* the head of an iteration: world.hit(&ray, 0.0001, INFINITY) returns out
RayColorHit ==
    /\ rpc = "loop"
    /\ iter < depth
    /\ \E out \in world_hit(ray) :
          /\ world_memo' = [made |-> TRUE, ray |-> ray, out |-> out]
          /\ IF out.some
             THEN /\ rec' = out
                  /\ rpc' = "scatter"
                  /\ UNCHANGED <<result, escaped>>
             ELSE /\ result' = Some(Background)
                  /\ rpc' = "done"
                  /\ escaped' = TRUE
                  /\ UNCHANGED rec
    /\ hit_tests' = hit_tests + 1
    /\ tests_after' = IF absorbed THEN tests_after + 1 ELSE tests_after
    /\ UNCHANGED <<ray, depth, color, iter, absorbed>>
    /\ UNCHANGED <<hitVars, setVars, convVars, sampVars, glassVars, traceVars>>

\* the rest of the iteration once rec.scatter(&ray) returned s
RayColorScatterTo(s) ==
    /\ IF s.some
       THEN /\ ray' = s.val.scattered
            /\ color' = [color EXCEPT !.r = QMul[@, s.val.attenuation.r],
                                      !.g = QMul[@, s.val.attenuation.g],
                                      !.b = QMul[@, s.val.attenuation.b]]
            /\ UNCHANGED absorbed
       ELSE /\ absorbed' = TRUE
            /\ UNCHANGED <<ray, color>>
    /\ iter' = iter + 1
    /\ rpc' = "loop"
    /\ rec' = Option_None

RayColorScatter ==
    /\ rpc = "scatter"
    /\ \E rand \in UnitRands, draw \in Draws :
          RayColorScatterTo(scatter(rec.val, ray, rand, draw))
    /\ UNCHANGED <<depth, result, world_memo, hit_tests, tests_after, escaped>>
    /\ UNCHANGED <<hitVars, setVars, convVars, sampVars, glassVars, traceVars>>

\* a variant that returns the color gathered when the loop is over
RayColorExhausted_color ==
    /\ rpc = "loop"
    /\ iter >= depth
    /\ result' = Some(color)
    /\ rpc' = "done"
    /\ UNCHANGED <<ray, depth, color, iter, rec, world_memo, hit_tests,
                   absorbed, tests_after, escaped>>
    /\ UNCHANGED <<hitVars, setVars, convVars, sampVars, glassVars, traceVars>>

\* the loop is over: frgb(0.0, 0.0, 0.0)
RayColorExhausted ==
    /\ rpc = "loop"
    /\ iter >= depth
    /\ result' = Some(frgb(I(0), I(0), I(0)))
    /\ rpc' = "done"
    /\ UNCHANGED <<ray, depth, color, iter, rec, world_memo, hit_tests,
                   absorbed, tests_after, escaped>>
    /\ UNCHANGED <<hitVars, setVars, convVars, sampVars, glassVars, traceVars>>

NextRay == RayColorHit \/ RayColorScatter \/ RayColorExhausted

SpecRayInit == InitRay /\ Idle("ray")

SpecRay == SpecRayInit /\ [][NextRay]_vars

\* ray_color runs to its end: the code is sequential, every step that is
\* possible is taken
FairSpecRay == SpecRay /\ WF_vars(NextRay)

----------------------------------------------------------------------------
(* Claims on ray_color *)

\* C1: when the ray hits geometry and the scatter of the hit material
\* returns None, ray_color ends at once and returns black: no later hit test
\* is made for that path and the result is not a background color.
C1_AbsorbedReturnsBlack ==
    rpc = "done" /\ absorbed =>
        /\ result = Some(Black)
        /\ tests_after = 0
        /\ ~escaped

NonNeg(n) == IF n < 0 THEN 0 ELSE n

C5_Safe ==
    /\ hit_tests <= NonNeg(depth)
    /\ rpc = "done" /\ ~escaped => result = Some(Black)

\* C5: ray_color(ray, world, depth) ends after at most depth hit tests, and
\* when no iteration leaves for the background it returns black, whatever
\* the attenuations gathered.
C5_EndsWithinDepth == []C5_Safe /\ <>(rpc = "done")

\* every one of depth >= 2 iterations hit, the color was attenuated, and
\* black was returned
C5_Witness ==
    /\ rpc = "done"
    /\ ~escaped
    /\ depth >= 2
    /\ hit_tests = depth
    /\ color # frgb(I(1), I(1), I(1))
    /\ result = Some(Black)

----------------------------------------------------------------------------
(* Image::set, a call per step *)

\* the largest width and height of an image, and the largest coordinate
MaxSide == 2

\* the most calls of set on one image
MaxSets == 2

SetColors == { frgb(I(1), I(0), I(0)), frgb(Q(1, 2), Q(1, 2), Q(1, 2)) }

InitSet ==
    /\ img \in { Image_empty(w, h) : w \in 0..MaxSide, h \in 0..MaxSide }
    /\ set_call = NoCall
    /\ set_calls = 0
    /\ set_pc = "ready"

ImageSetTo(px, py, c, out) ==
    /\ img' = out.image
    /\ set_call' = [made |-> TRUE, x |-> px, y |-> py, color |-> c,
                    before |-> img, panicked |-> out.panicked]
    /\ set_pc' = IF out.panicked THEN "panicked" ELSE "ready"

ImageSet ==
    /\ set_pc = "ready"
    /\ set_calls < MaxSets
    /\ \E px \in 0..MaxSide, py \in 0..MaxSide, c \in SetColors :
          ImageSetTo(px, py, c, Image_set(img, px, py, c))
    /\ set_calls' = set_calls + 1
    /\ UNCHANGED <<hitVars, rayVars, convVars, sampVars, glassVars, traceVars>>

SpecSetInit == InitSet /\ Idle("set")

SpecSet == SpecSetInit /\ [][ImageSet]_vars

----------------------------------------------------------------------------
(* Claims on Image::set *)

OutOfRange(call) ==
    call.x >= call.before.width \/ call.y >= call.before.height

\* C4: a call of Image::set with a coordinate out of range (x >= width or
\* y >= height) panics and changes no byte of the buffer; it never
\* overwrites another pixel.
C4_SetOutOfRangePanics ==
    set_call.made /\ OutOfRange(set_call) =>
        /\ set_call.panicked
        /\ img.data = set_call.before.data

----------------------------------------------------------------------------
(* frgb followed by RGBA::from *)

ConvertInputs == { Q(-1, 2), I(0), Q(1, 2), I(1), Q(3, 2) }

InitConvert ==
    /\ in_rgb \in [r : ConvertInputs, g : ConvertInputs, b : ConvertInputs]
    /\ fcolor = Option_None
    /\ rgba = Option_None
    /\ cpc = "start"

ConvertFrgb ==
    /\ cpc = "start"
    /\ fcolor' = Some(frgb(in_rgb.r, in_rgb.g, in_rgb.b))
    /\ cpc' = "color"
    /\ UNCHANGED <<in_rgb, rgba>>
    /\ UNCHANGED <<hitVars, rayVars, setVars, sampVars, glassVars, traceVars>>

ConvertFrom ==
    /\ cpc = "color"
    /\ rgba' = Some(RGBA_from(fcolor.val))
    /\ cpc' = "done"
    /\ UNCHANGED <<in_rgb, fcolor>>
    /\ UNCHANGED <<hitVars, rayVars, setVars, sampVars, glassVars, traceVars>>

NextConvert == ConvertFrgb \/ ConvertFrom

SpecConvertInit == InitConvert /\ Idle("conv")

SpecConvert == SpecConvertInit /\ [][NextConvert]_vars

----------------------------------------------------------------------------
(* Claims on the conversion *)

\* c limited to [0, 1], stated without clamp
Limited(c) == IF c[1] < 0 THEN I(0) ELSE IF c[1] > c[2] THEN I(1) ELSE c

\* byte = floor(c * 255.999) for a rational c in [0, 1]
IsFloorScaled(byte, c) ==
    /\ byte \in 0..255
    /\ byte * 1000 * c[2] <= c[1] * 255999
    /\ c[1] * 255999 < (byte + 1) * 1000 * c[2]

\* round(c * 255.999) for a rational c in [0, 1]
RoundScaled(c) == (2 * c[1] * 255999 + 1000 * c[2]) \div (2000 * c[2])

ClaimInputs == { I(0), Q(1, 2), I(1) }

\* C6 as amended: frgb(r, g, b) converted with RGBA::from has in each colour
\* channel c the byte floor(clamp(c, 0, 1) * 255.999), and alpha 255.
C6_ChannelsAreFloored ==
    cpc = "done" =>
        /\ IsFloorScaled(rgba.val.r, Limited(in_rgb.r))
        /\ IsFloorScaled(rgba.val.g, Limited(in_rgb.g))
        /\ IsFloorScaled(rgba.val.b, Limited(in_rgb.b))
        /\ rgba.val.a = 255

\* frgb(0.5, 0.5, 0.5) came out as (127, 127, 127, 255)
C6_Witness ==
    /\ cpc = "done"
    /\ in_rgb = [r |-> Q(1, 2), g |-> Q(1, 2), b |-> Q(1, 2)]
    /\ rgba.val = [r |-> 127, g |-> 127, b |-> 127, a |-> 255]

\* C6 as stated: for r, g, b in {0.0, 0.5, 1.0} each colour channel is
\* round(clamp(c, 0, 1) * 255.999), and alpha is 255.
C6_ChannelsAreRounded ==
    cpc = "done" /\ in_rgb.r \in ClaimInputs /\ in_rgb.g \in ClaimInputs
                 /\ in_rgb.b \in ClaimInputs =>
        /\ rgba.val.r = RoundScaled(Limited(in_rgb.r))
        /\ rgba.val.g = RoundScaled(Limited(in_rgb.g))
        /\ rgba.val.b = RoundScaled(Limited(in_rgb.b))
        /\ rgba.val.a = 255

----------------------------------------------------------------------------
(* SampledColor: empty(), then calls of add, then result() *)

\* the most calls of add
MaxSamples == 4

\* the samples the model draws from; their sums, quotients and roots are
\* the same in f64 as in exact arithmetic
SampleColors ==
    { frgb(Q(1, 4), I(1), I(0)),
      frgb(Q(1, 2), Q(1, 16), Q(1, 4)),
      [r |-> I(1), g |-> Q(1, 4), b |-> Q(1, 2), a |-> Q(1, 2)] }

InitSampled ==
    /\ sc = SampledColor_empty
    /\ added = <<>>
    /\ sc_result = Option_None
    /\ spc = "open"

SampledAdd ==
    /\ spc = "open"
    /\ Len(added) < MaxSamples
    /\ \E sample \in SampleColors :
          /\ sc' = SampledColor_add(sc, sample)
          /\ added' = Append(added, sample)
    /\ UNCHANGED <<sc_result, spc>>
    /\ UNCHANGED <<hitVars, rayVars, setVars, convVars, glassVars, traceVars>>

SampledResult ==
    /\ spc = "open"
    /\ sc_result' = Some(SampledColor_result(sc))
    /\ spc' = "done"
    /\ UNCHANGED <<sc, added>>
    /\ UNCHANGED <<hitVars, rayVars, setVars, convVars, glassVars, traceVars>>

NextSampled == SampledAdd \/ SampledResult

SpecSampledInit == InitSampled /\ Idle("samp")

SpecSampled == SpecSampledInit /\ [][NextSampled]_vars

----------------------------------------------------------------------------
(* Claims on SampledColor *)

RECURSIVE AlphaSum(_)
AlphaSum(samples) ==
    IF samples = <<>> THEN I(0)
    ELSE QAdd[AlphaSum(SubSeq(samples, 1, Len(samples) - 1)),
              samples[Len(samples)].a]

AllSame(samples) == \A k \in 1..Len(samples) : samples[k] = samples[1]

\* C8: samples is the number of calls of add; after N >= 1 calls add(C) of
\* one colour C, result() is sqrt(C) in r, g and b, and its alpha is the plain
\* average of the alphas added.
C8_SampledAverage ==
    /\ spc \in {"open", "done"} => sc.samples = Len(added)
    /\ spc = "done" /\ Len(added) >= 1 =>
          /\ sc_result.val.a = QDiv[AlphaSum(added), I(Len(added))]
          /\ AllSame(added) =>
                /\ sc_result.val.r = QSqrt[added[1].r]
                /\ sc_result.val.g = QSqrt[added[1].g]
                /\ sc_result.val.b = QSqrt[added[1].b]

\* three samples of one colour with alpha 1/2: the root of 1/4 is 1/2
C8_Witness ==
    /\ spc = "done"
    /\ Len(added) = 3
    /\ AllSame(added)
    /\ added[1].a = Q(1, 2)
    /\ sc_result.val.g = Q(1, 2)
    /\ sc_result.val.a = Q(1, 2)

----------------------------------------------------------------------------
(* HitRecord::scatter on a Glass record *)

GlassRays ==
    { Ray(VI(0, 1, 0), VI(0, -1, 0)),
      Ray(VI(0, 1, 0), VI(0, -2, 0)),
      Ray(VI(0, 1, 0), VI(3, -4, 0)),
      Ray(VI(0, 1, 0), VI(4, -3, 0)),
      Ray(VI(0, -1, 0), VI(0, 1, 0)),
      Ray(VI(0, -1, 0), VI(-3, 4, 0)),
      Ray(VI(0, -1, 0), VI(4, 3, 0)) }

GlassNormals == { VI(0, 1, 0), VI(1, 0, 0), VI(0, 0, 1) }

GlassIndices == { I(1), Q(4, 3) }

GlassDraws == { I(0), Q(1, 100), Q(1, 2) }

InitGlass ==
    /\ g_ray \in GlassRays
    /\ g_rec \in { HitRecord_new(I(1), VI(0, 0, 0), g_ray, n, Glass(ri)) :
                       n \in GlassNormals, ri \in GlassIndices }
    /\ ExactGlass(g_rec, g_ray)
    /\ g_draw \in GlassDraws
    /\ g_ret = Option_None
    /\ g_reflected = FALSE
    /\ gpc = "call"

GlassScatter ==
    /\ gpc = "call"
    /\ \E rand \in UnitRands : g_ret' = scatter(g_rec, g_ray, rand, g_draw)
    /\ g_reflected' = GlassReflectsOn(GlassTerms(g_rec, g_ray), g_draw)
    /\ gpc' = "done"
    /\ UNCHANGED <<g_rec, g_ray, g_draw>>
    /\ UNCHANGED <<hitVars, rayVars, setVars, convVars, sampVars, traceVars>>

SpecGlassInit == InitGlass /\ Idle("glass")

SpecGlass == SpecGlassInit /\ [][GlassScatter]_vars

----------------------------------------------------------------------------
(* Claims on the Glass arm *)

UnitIn == normalize[g_ray.direction]

\* cos of the angle of incidence, at most 1
CosIn == IF QGt[QNeg[dot[UnitIn, g_rec.normal]], I(1)] THEN I(1)
         ELSE QNeg[dot[UnitIn, g_rec.normal]]

MatchedIndex == gpc = "done" /\ g_rec.material.ri = I(1)

\* C9 as amended: with refractive index 1.0 scatter always returns a ray
\* from the hit point with white attenuation; it reflects exactly when the
\* draw is below (1 - cos)^5, and otherwise the scattered direction is the
\* unit incoming direction.
C9_MatchedIndexRefractsUndeviated ==
    MatchedIndex =>
        /\ g_ret.some
        /\ g_ret.val.attenuation = White
        /\ g_ret.val.scattered.origin = g_rec.p
        /\ g_reflected <=> QLt[g_draw, QPowi(QSub[I(1), CosIn], 5)]
        /\ g_ret.val.scattered.direction =
              IF g_reflected THEN reflect[UnitIn, g_rec.normal] ELSE UnitIn

\* an oblique ray went through a surface of index 1.0 undeviated
C9_Witness ==
    /\ MatchedIndex
    /\ QLt[CosIn, I(1)]
    /\ QGt[CosIn, I(0)]
    /\ ~g_reflected
    /\ g_ret.some
    /\ g_ret.val.scattered.direction = UnitIn

\* C9 as stated: with refractive index 1.0 the scattered direction is the
\* unit incoming direction at every angle and for every draw, the reflect
\* branch is never taken, and the attenuation is white.
C9_MatchedIndexNeverReflects ==
    MatchedIndex =>
        /\ g_ret.some
        /\ g_ret.val.scattered.direction = UnitIn
        /\ ~g_reflected
        /\ g_ret.val.attenuation = White

----------------------------------------------------------------------------
(* trace(width): a step per sample and per pixel *)

\* the largest width trace is called with
MaxWidth == 4

SAMPLES_PER_PIXEL == 50

\* the values of fastrand::f64() the model draws from, in [0, 1)
Jitters == { I(0), Q(1, 2), Q(9, 10) }

\* ray_color returns a colour made by frgb.  Neither the loops nor the
\* coordinates of trace read it, and with fifty samples a pixel the model
\* keeps to one colour.
TraceColors == { frgb(Q(1, 4), Q(1, 2), I(1)) }

InitTrace ==
    /\ width \in 0..MaxWidth
    /\ height = height_of(width)
    /\ image = Image_empty(width, height)
    /\ y = 0
    /\ x = 0
    /\ sampled = SampledColor_empty
    /\ sample_i = 0
    /\ u = Option_None
    /\ v = Option_None
    /\ cam_ray = Option_None
    /\ writes = <<>>
    /\ tpc = "loop"

TraceSampleTo(su, sv, sample) ==
    /\ u' = Some(su)
    /\ v' = Some(sv)
    /\ cam_ray' = Some(get_ray(Camera_new, su, sv))
    /\ sampled' = SampledColor_add(sampled, sample)

\* a variant of the sample loop that leaves out the flip of v
TraceSample_no_flip ==
    /\ tpc = "loop"
    /\ y < height
    /\ x < width
    /\ sample_i < SAMPLES_PER_PIXEL
    /\ \E rand_u \in Jitters, rand_v \in Jitters, sample \in TraceColors :
          TraceSampleTo(QDiv[QAdd[rand_u, I(x)], I(width - 1)],
                        QDiv[QSub[I(y), rand_v], I(height - 1)],
                        sample)
    /\ sample_i' = sample_i + 1
    /\ UNCHANGED <<width, height, image, y, x, writes, tpc>>
    /\ UNCHANGED <<hitVars, rayVars, setVars, convVars, sampVars, glassVars>>

\* an iteration of the sample loop
TraceSample ==
    /\ tpc = "loop"
    /\ y < height
    /\ x < width
    /\ sample_i < SAMPLES_PER_PIXEL
    /\ \E rand_u \in Jitters, rand_v \in Jitters, sample \in TraceColors :
          TraceSampleTo(QDiv[QAdd[rand_u, I(x)], I(width - 1)],
                        QSub[I(1), QDiv[QSub[I(y), rand_v], I(height - 1)]],
                        sample)
    /\ sample_i' = sample_i + 1
    /\ UNCHANGED <<width, height, image, y, x, writes, tpc>>
    /\ UNCHANGED <<hitVars, rayVars, setVars, convVars, sampVars, glassVars>>

\* a variant of the loops that walks the image column by column
TraceAdvance_by_column(px, py, w, h) ==
    IF py + 1 < h THEN [x |-> px, y |-> py + 1] ELSE [x |-> px + 1, y |-> 0]

\* the position after (px, py) in `for y in 0..height { for x in 0..width`
TraceAdvance(px, py, w, h) ==
    IF px + 1 < w THEN [x |-> px + 1, y |-> py] ELSE [x |-> 0, y |-> py + 1]

TraceSetTo(out, pos) ==
    /\ image' = out.image
    /\ tpc' = IF out.panicked THEN "panicked" ELSE "loop"
    /\ x' = pos.x
    /\ y' = pos.y

\* the end of the sample loop: image.set(x, y, sampled.result()), and on to
\* the next pixel
TraceSet ==
    /\ tpc = "loop"
    /\ y < height
    /\ x < width
    /\ sample_i = SAMPLES_PER_PIXEL
    /\ TraceSetTo(Image_set(image, x, y, SampledColor_result(sampled)),
                  TraceAdvance(x, y, width, height))
    /\ writes' = Append(writes, <<x, y>>)
    /\ sampled' = SampledColor_empty
    /\ sample_i' = 0
    /\ u' = Option_None
    /\ v' = Option_None
    /\ cam_ray' = Option_None
    /\ UNCHANGED <<width, height>>
    /\ UNCHANGED <<hitVars, rayVars, setVars, convVars, sampVars, glassVars>>

\* the row loop is over: trace returns image
TraceReturn ==
    /\ tpc = "loop"
    /\ y >= height
    /\ tpc' = "done"
    /\ UNCHANGED <<width, height, image, y, x, sampled, sample_i, u, v, cam_ray,
                   writes>>
    /\ UNCHANGED <<hitVars, rayVars, setVars, convVars, sampVars, glassVars>>

NextTrace == TraceSample \/ TraceSet \/ TraceReturn

SpecTraceInit == InitTrace /\ Idle("trace")

SpecTrace == SpecTraceInit /\ [][NextTrace]_vars

----------------------------------------------------------------------------
(* Claims on trace *)

\* the pixels of a w by h image row by row, the top row first
RowMajor(w, h) == [k \in 1..(w * h) |-> <<(k - 1) % w, (k - 1) \div w>>]

PixelAt(im, px, py) ==
    SubSeq(im.data, 4 * (im.width * py + px) + 1, 4 * (im.width * py + px) + 4)

Written(px, py) == \E k \in 1..Len(writes) : writes[k] = <<px, py>>

\* the writes so far are the first pixels in row-major order, each once, and
\* exactly the written pixels differ from the empty image
C3_WritesSoFar ==
    /\ tpc # "panicked"
    /\ Len(writes) <= width * height
    /\ \A k \in 1..Len(writes) : writes[k] = RowMajor(width, height)[k]
    /\ \A px \in 0..(width - 1), py \in 0..(height - 1) :
          IF Written(px, py) THEN PixelAt(image, px, py)[4] = 255
          ELSE PixelAt(image, px, py) = <<0, 0, 0, 0>>
    /\ tpc = "done" => Len(writes) = width * height

\* a step that changes the image is one call of set: it changes the bytes
\* of the pixel (x, y) and no other
C3_SinglePixelStep ==
    image' # image =>
        /\ writes' = Append(writes, <<x, y>>)
        /\ x < width
        /\ y < height
        /\ image'.width = image.width
        /\ image'.height = image.height
        /\ Len(image'.data) = Len(image.data)
        /\ \A i \in 1..Len(image.data) :
              (i - 1) \div 4 # image.width * y + x => image'.data[i] = image.data[i]

\* C3: during trace(width) the image changes only through single-pixel
\* writes image.set(x, y, _); every pixel with 0 <= x < width and
\* 0 <= y < height is written exactly once, in row-major order with the top
\* row first, and no write is outside the image.
C3_EachPixelOnceRowMajor == []C3_WritesSoFar /\ [][C3_SinglePixelStep]_vars

\* a finished image of two rows of four pixels
C3_Witness ==
    /\ tpc = "done"
    /\ width = 4
    /\ height = 2
    /\ writes = <<<<0, 0>>, <<1, 0>>, <<2, 0>>, <<3, 0>>,
                  <<0, 1>>, <<1, 1>>, <<2, 1>>, <<3, 1>>>>

\* C7: trace(width) aborts instead of returning an image when width or the
\* derived height is 1 (a zero denominator width - 1 or height - 1), and
\* when the derived height is 0.
C7_DegenerateAborts ==
    tpc = "done" => ~(width = 1 \/ height = 1 \/ height = 0)

\* a sample of the pixel (x, y) has been drawn: u and v are those passed to
\* get_ray
Sampling == tpc = "loop" /\ u.some /\ v.some

InRange01(c) == QLe[I(0), c] /\ QLe[c, I(1)]

\* C12 as amended: u = (x + jitter) / (width - 1) is in [0, width / (width - 1)]
\* and is above 1 only in the last column; with at least two rows
\* v = 1 - (y - jitter) / (height - 1) is in [0, height / (height - 1)], is
\* above 1 only in row 0, and row 0 has v >= 1; with one row (the zero
\* denominator of C7) v is infinite or NaN.
C12_ViewportRange ==
    Sampling =>
        /\ width >= 2
        /\ QLe[I(0), u.val]
        /\ QLe[u.val, Q(width, width - 1)]
        /\ QGt[u.val, I(1)] => x = width - 1
        /\ IF height >= 2
           THEN /\ QLe[I(0), v.val]
                /\ QLe[v.val, Q(height, height - 1)]
                /\ QGt[v.val, I(1)] => y = 0
                /\ y = 0 => QLe[I(1), v.val]
           ELSE v.val \in { INFINITY, NaN }

\* a sample of the top right pixel of an image of two rows: u is above 1,
\* and v is 1 with no jitter
C12_Witness ==
    /\ Sampling
    /\ height >= 2
    /\ y = 0
    /\ x = width - 1
    /\ QGt[u.val, I(1)]
    /\ v.val = I(1)

\* C12 as stated, on the images of at least two rows (no zero denominator):
\* 0 <= u <= 1 and 0 <= v <= 1 for every pixel and jitter, and row 0 has
\* v = 1.
C12_ViewportUnitRange ==
    Sampling /\ height >= 2 =>
        /\ InRange01(u.val)
        /\ InRange01(v.val)
        /\ y = 0 => v.val = I(1)

====
